---------------------------- MODULE Spec2Model ----------------------------
(***************************************************************************)
(* Model of src/mvp.py: a polling loop that fetches minute bars, gates on  *)
(* open positions, evaluates a breakout signal, sizes and submits bracket  *)
(* orders, and sleeps between cycles.                                      *)
(*                                                                         *)
(* Prices are whole cents.  The Python floats of the source are modelled   *)
(* as exact rationals <<numerator, denominator>>; fractions such as        *)
(* SL_PCT = 0.003 are <<3, 1000>>.                                         *)
(***************************************************************************)
EXTENDS Integers, Sequences, FiniteSets, TLC

(* ------------------------------ config -------------------------------- *)
SYMBOLS == <<"AAPL", "MSFT">>
LOOKBACK == 20
DOLLAR_RISK == 100
TP_PCT == <<4, 1000>>
SL_PCT == <<3, 1000>>
POLL_SEC == 30

(* ------------------------------ bounds -------------------------------- *)
\* consecutive faulty cycles are counted up to MaxFaults (saturating)
MaxFaults == 2
\* pure-function inputs: lookbacks 1..MaxLookback, closes 1..MaxClose,
\* prices -1..MaxPrice (cents), dollar numerators -1..MaxDollars
MaxLookback == 3
MaxClose == 3
MaxPrice == 4
MaxDollars == 3

VARIABLES
    pc,             \* position of main(): the line it is at
    tradable_map,   \* Broker: symbol -> tradable flag (get_all_assets)
    positions,      \* Broker: symbols with an open position
    pending,        \* Broker: symbols with an accepted, not yet filled order
    tradable_syms,  \* main(): result of ensure_tradable
    bars_map,       \* main(): result of get_latest_bars
    idx,            \* main(): index of the current item of bars_map.items()
    order,          \* the MarketOrderRequest being submitted
    gate_seen,      \* history: per symbol, outcome of this cycle's gate query
    cycle_orders,   \* history: per symbol, submit_order calls of this cycle
    cycle_queries,  \* history: per symbol, position queries of this cycle
    cycle_fault,    \* history: step of this cycle that raised, or "none"
    slept,          \* history: seconds slept since the last fetch call
    tick,           \* history: parity of the number of fetch calls
    consec_faults,  \* history: consecutive faulty cycles, up to MaxFaults
    interrupted_at, \* history: pc at which KeyboardInterrupt was delivered
    activity,       \* history: kinds of external calls made so far
    call            \* pure-function harness: a call and its result

loopvars == <<pc, tradable_map, positions, pending, tradable_syms, bars_map,
              idx, order, gate_seen, cycle_orders, cycle_queries, cycle_fault,
              slept, tick, consec_faults, interrupted_at, activity>>
vars == <<pc, tradable_map, positions, pending, tradable_syms, bars_map,
          idx, order, gate_seen, cycle_orders, cycle_queries, cycle_fault,
          slept, tick, consec_faults, interrupted_at, activity, call>>

(* ------------------------------ helpers ------------------------------- *)
Range(s) == {s[i] : i \in 1..Len(s)}

SymbolSet == Range(SYMBOLS)

Last(s) == s[Len(s)]

RECURSIVE SeqMax(_)
SeqMax(s) ==
    IF Len(s) = 1 THEN s[1]
    ELSE LET m == SeqMax(Tail(s)) IN IF s[1] > m THEN s[1] ELSE m

\* Python slice s[start:stop] with negative indices, as a 1-based SubSeq
PySlice(s, start, stop) ==
    LET n == Len(s)
        norm(i) == IF i < 0 THEN (IF n + i < 0 THEN 0 ELSE n + i)
                   ELSE (IF i > n THEN n ELSE i)
    IN SubSeq(s, norm(start) + 1, norm(stop))

\* sorted(set) over symbols: SYMBOLS is in ascending order, so the sorted
\* list of a subset keeps the order of SYMBOLS
RECURSIVE SortedSyms(_, _)
SortedSyms(syms, set) ==
    IF syms = <<>> THEN <<>>
    ELSE (IF Head(syms) \in set THEN <<Head(syms)>> ELSE <<>>)
         \o SortedSyms(Tail(syms), set)

NoOrder == [symbol |-> "none", qty |-> 0, price |-> 0, side |-> "none",
            order_class |-> "none", take_profit |-> 0, stop_loss |-> 0]

NoCall == [fn |-> "none", returned |-> FALSE, close |-> <<>>,
           lookback |-> 0, price |-> 0, dollars |-> <<0, 1>>,
           signal |-> FALSE, qty |-> 0, requests |-> {}]


None == [none |-> TRUE, items |-> <<>>]

(* --------------------------- pure functions --------------------------- *)
\* get_latest_bars: bars is the provider's frame, a function from the
\* symbols it has rows for to their closes (ascending by time); the empty
\* function is the empty frame
RECURSIVE Reshape(_, _)
Reshape(symbols, bars) ==
    IF symbols = <<>> THEN <<>>
    ELSE (IF Head(symbols) \in DOMAIN bars
          THEN <<[sym |-> Head(symbols), close |-> bars[Head(symbols)]]>>
          ELSE <<>>)
         \o Reshape(Tail(symbols), bars)

get_latest_bars(symbols, bars) ==
    IF DOMAIN bars = {} THEN None
    ELSE [none |-> FALSE, items |-> Reshape(symbols, bars)]

\* Python truth value of bars_map: None and {} are both false
Truthy(bm) == ~bm.none /\ bm.items # <<>>

\* mutant: the comparison of line 61 written >=
calc_signal_Tie(close, lookback) ==
    IF Len(close) < lookback + 1 THEN FALSE
    ELSE LET rolling_max == SeqMax(PySlice(close, -(lookback + 1), -1))
         IN Last(close) >= rolling_max

\* calc_signal, with the global LOOKBACK it reads made a parameter
calc_signal(close, lookback) ==
    IF Len(close) < lookback + 1 THEN FALSE
    ELSE LET rolling_max == SeqMax(PySlice(close, -(lookback + 1), -1))
         IN Last(close) > rolling_max

\* mutant: line 66 rounds dollars / price to the nearest whole number
round_qty_Nearest(price, dollars) ==
    IF price <= 0 THEN 0
    ELSE LET qty == (2 * 100 * dollars[1] + dollars[2] * price)
                        \div (2 * dollars[2] * price)
         IN IF qty > 0 THEN qty ELSE 0

\* round_qty: price in cents, dollars a rational <<n, d>>;
\* dollars // price = floor((n/d) / (price/100)) = floor(100n / (d*price))
round_qty(price, dollars) ==
    IF price <= 0 THEN 0
    ELSE LET qty == (100 * dollars[1]) \div (dollars[2] * price)
         IN IF qty > 0 THEN qty ELSE 0

\* DOLLAR_RISK / SL_PCT
RiskBudget == <<DOLLAR_RISK * SL_PCT[2], SL_PCT[1]>>

\* already_open: any(p.symbol == sym for p in positions)
already_open(sym, broker_positions) == \E p \in broker_positions : p = sym

\* mutant: the price is cut to 2 decimals instead of rounded
Round2_Floor(num, den) == {num \div den}

\* round(x, 2) of x = num/den cents: the nearest cent; on an exact decimal
\* tie the float's representation error decides, so either neighbour
Round2(num, den) ==
    LET q == num \div den
        r == num % den
    IN IF 2 * r < den THEN {q}
       ELSE IF 2 * r > den THEN {q + 1}
       ELSE {q, q + 1}

\* mutant: the signs of lines 77 and 78 are exchanged
place_bracket_market_Swapped(sym, qty, price) ==
    {[symbol |-> sym, qty |-> qty, price |-> price, side |-> "buy",
      order_class |-> "bracket", take_profit |-> tp, stop_loss |-> sl] :
        tp \in Round2(price * (TP_PCT[2] - TP_PCT[1]), TP_PCT[2]),
        sl \in Round2(price * (SL_PCT[2] + SL_PCT[1]), SL_PCT[2])}

\* place_bracket_market: the requests it may build for (sym, qty, price)
place_bracket_market(sym, qty, price) ==
    {[symbol |-> sym, qty |-> qty, price |-> price, side |-> "buy",
      order_class |-> "bracket", take_profit |-> tp, stop_loss |-> sl] :
        tp \in Round2(price * (TP_PCT[2] + TP_PCT[1]), TP_PCT[2]),
        sl \in Round2(price * (SL_PCT[2] - SL_PCT[1]), SL_PCT[2])}

\* mutant: the test of line 97 is missing
ensure_tradable_NoFilter(symbols, tmap) ==
    SortedSyms(symbols, Range(symbols))

\* ensure_tradable: sorted({s in symbols : tradable_map.get(s, False)})
ensure_tradable(symbols, tmap) ==
    SortedSyms(symbols, {s \in Range(symbols) :
                            s \in DOMAIN tmap /\ tmap[s]})

(* ------------------------- environment inputs ------------------------- *)
Hist(len, prev, last) == [i \in 1..len |-> IF i = len THEN last ELSE prev]

\* bar histories the provider may return for one symbol: a tie with the
\* prior maximum; a breakout; a breakout priced above the risk budget
LoopHistories ==
    {Hist(LOOKBACK + 1, 5000, c) : c \in {5000, 5001, 3400000}}

\* frames the provider may return for a request of symbols
BarFrames(symbols) ==
    UNION {[S -> LoopHistories] : S \in SUBSET Range(symbols)}

(* ------------------------------- state -------------------------------- *)
FreshGate == [s \in SymbolSet |-> "unqueried"]
FreshOrders == [s \in SymbolSet |-> 0]

Init ==
    /\ pc = "startup"
    /\ tradable_map \in [SymbolSet -> BOOLEAN]
    /\ positions \in SUBSET SymbolSet
    /\ pending = {}
    /\ tradable_syms = <<>>
    /\ bars_map = None
    /\ idx = 0
    /\ order = NoOrder
    /\ gate_seen = FreshGate
    /\ cycle_orders = FreshOrders
    /\ cycle_queries = FreshOrders
    /\ cycle_fault = "none"
    /\ slept = 0
    /\ tick = 0
    /\ consec_faults = 0
    /\ interrupted_at = "none"
    /\ activity = {}
    /\ call = NoCall

\* the item of bars_map.items() the for loop is at
Item == bars_map.items[idx]

\* mutant: the for loop does not move on from the item it is at
NextItem_Stuck ==
    /\ idx' = idx
    /\ pc' = "gate"
    /\ UNCHANGED consec_faults

\* the for loop moves to its next item, or ends and line 134 is reached
NextItem ==
    IF idx < Len(bars_map.items)
    THEN /\ idx' = idx + 1
         /\ pc' = "gate"
         /\ UNCHANGED consec_faults
    ELSE /\ idx' = idx
         /\ pc' = "cycle_sleep"
         /\ consec_faults' = 0

\* mutant: no handler at line 139, the exception leaves main()
RaiseUncaught(step) ==
    /\ pc' = "crashed"
    /\ cycle_fault' = step
    /\ UNCHANGED consec_faults

\* an Exception raised at step reaches the handler of line 139
RaiseTo139(step) ==
    /\ pc' = "fault_sleep"
    /\ cycle_fault' = step
    /\ consec_faults' =
          IF consec_faults < MaxFaults THEN consec_faults + 1 ELSE MaxFaults

(* ------------------------------ startup ------------------------------- *)
\* mutant: the return of line 105 is missing
Startup_NoReturn ==
    /\ pc = "startup"
    /\ tradable_syms' = ensure_tradable(SYMBOLS, tradable_map)
    /\ pc' = "fetch"
    /\ UNCHANGED <<tradable_map, positions, pending, bars_map, idx, order,
                   gate_seen, cycle_orders, cycle_queries, cycle_fault, slept,
                   tick, consec_faults, interrupted_at, activity, call>>

\* lines 102-107
Startup ==
    /\ pc = "startup"
    /\ tradable_syms' = ensure_tradable(SYMBOLS, tradable_map)
    /\ pc' = IF tradable_syms' = <<>> THEN "exited" ELSE "fetch"
    /\ UNCHANGED <<tradable_map, positions, pending, bars_map, idx, order,
                   gate_seen, cycle_orders, cycle_queries, cycle_fault, slept,
                   tick, consec_faults, interrupted_at, activity, call>>

\* get_all_assets raises at line 94: nothing catches it
StartupFault ==
    /\ pc = "startup"
    /\ pc' = "crashed"
    /\ UNCHANGED <<tradable_map, positions, pending, tradable_syms, bars_map,
                   idx, order, gate_seen, cycle_orders, cycle_queries,
                   cycle_fault, slept, tick, consec_faults, interrupted_at,
                   activity, call>>

(* ------------------------------ one cycle ----------------------------- *)
\* mutant: lines 111-114 are missing, bars_map.items() of line 116 raises
\* on None
Fetch_NoBarsRaises ==
    /\ pc = "fetch"
    /\ \E bars \in BarFrames(tradable_syms) :
          bars_map' = get_latest_bars(tradable_syms, bars)
    /\ tick' = 1 - tick
    /\ activity' = activity \cup {"fetch"}
    /\ gate_seen' = FreshGate
    /\ cycle_orders' = FreshOrders
    /\ cycle_queries' = FreshOrders
    /\ slept' = 0
    /\ IF Truthy(bars_map')
       THEN /\ pc' = "gate"
            /\ idx' = 1
            /\ cycle_fault' = "none"
            /\ UNCHANGED consec_faults
       ELSE /\ idx' = 0
            /\ RaiseTo139("items")
    /\ UNCHANGED <<tradable_map, positions, pending, tradable_syms, order,
                   interrupted_at, call>>

\* lines 110-116: the fetch returns
Fetch ==
    /\ pc = "fetch"
    /\ \E bars \in BarFrames(tradable_syms) :
          bars_map' = get_latest_bars(tradable_syms, bars)
    /\ tick' = 1 - tick
    /\ activity' = activity \cup {"fetch"}
    /\ gate_seen' = FreshGate
    /\ cycle_orders' = FreshOrders
    /\ cycle_queries' = FreshOrders
    /\ cycle_fault' = "none"
    /\ slept' = 0
    /\ IF Truthy(bars_map')
       THEN /\ pc' = "gate"
            /\ idx' = 1
            /\ UNCHANGED consec_faults
       ELSE /\ pc' = "nobars_sleep"
            /\ idx' = 0
            /\ consec_faults' = 0
    /\ UNCHANGED <<tradable_map, positions, pending, tradable_syms, order,
                   interrupted_at, call>>

\* line 110: the fetch raises
FetchFault ==
    /\ pc = "fetch"
    /\ tick' = 1 - tick
    /\ activity' = activity \cup {"fetch"}
    /\ gate_seen' = FreshGate
    /\ cycle_orders' = FreshOrders
    /\ cycle_queries' = FreshOrders
    /\ slept' = 0
    /\ RaiseTo139("fetch")
    /\ UNCHANGED <<tradable_map, positions, pending, tradable_syms, bars_map,
                   idx, order, interrupted_at, call>>

\* lines 113-114: the sleep of a cycle without bars ends
NoBarsSleep ==
    /\ pc = "nobars_sleep"
    /\ slept' = slept + POLL_SEC
    /\ pc' = "fetch"
    /\ UNCHANGED <<tradable_map, positions, pending, tradable_syms, bars_map,
                   idx, order, gate_seen, cycle_orders, cycle_queries,
                   cycle_fault, tick, consec_faults, interrupted_at, activity,
                   call>>

\* mutant: the continue of line 120 is missing
Gate_NoSkip ==
    /\ pc = "gate"
    /\ activity' = activity \cup {"query"}
    /\ cycle_queries' = [cycle_queries EXCEPT ![Item.sym] = @ + 1]
    /\ gate_seen' = [gate_seen EXCEPT ![Item.sym] =
                        IF already_open(Item.sym, positions)
                        THEN "open" ELSE "clear"]
    /\ pc' = "signal"
    /\ UNCHANGED <<tradable_map, positions, pending, tradable_syms, bars_map,
                   idx, order, cycle_orders, cycle_fault, slept, tick,
                   consec_faults, interrupted_at, call>>

\* mutant: the gate also counts orders the Broker has accepted and not
\* yet filled
Gate_ChecksPending ==
    /\ pc = "gate"
    /\ activity' = activity \cup {"query"}
    /\ cycle_queries' = [cycle_queries EXCEPT ![Item.sym] = @ + 1]
    /\ IF already_open(Item.sym, positions \cup pending)
       THEN /\ gate_seen' = [gate_seen EXCEPT ![Item.sym] = "open"]
            /\ NextItem
       ELSE /\ gate_seen' = [gate_seen EXCEPT ![Item.sym] = "clear"]
            /\ pc' = "signal"
            /\ UNCHANGED <<idx, consec_faults>>
    /\ UNCHANGED <<tradable_map, positions, pending, tradable_syms, bars_map,
                   order, cycle_orders, cycle_fault, slept, tick,
                   interrupted_at, call>>

\* lines 117-120: the position query returns
Gate ==
    /\ pc = "gate"
    /\ activity' = activity \cup {"query"}
    /\ cycle_queries' = [cycle_queries EXCEPT ![Item.sym] = @ + 1]
    /\ IF already_open(Item.sym, positions)
       THEN /\ gate_seen' = [gate_seen EXCEPT ![Item.sym] = "open"]
            /\ NextItem
       ELSE /\ gate_seen' = [gate_seen EXCEPT ![Item.sym] = "clear"]
            /\ pc' = "signal"
            /\ UNCHANGED <<idx, consec_faults>>
    /\ UNCHANGED <<tradable_map, positions, pending, tradable_syms, bars_map,
                   order, cycle_orders, cycle_fault, slept, tick,
                   interrupted_at, call>>

\* line 118: the position query raises
GateFault ==
    /\ pc = "gate"
    /\ activity' = activity \cup {"query"}
    /\ cycle_queries' = [cycle_queries EXCEPT ![Item.sym] = @ + 1]
    /\ gate_seen' = [gate_seen EXCEPT ![Item.sym] = "failed"]
    /\ RaiseTo139("gate")
    /\ UNCHANGED <<tradable_map, positions, pending, tradable_syms, bars_map,
                   idx, order, cycle_orders, slept, tick, interrupted_at, call>>

\* mutant: line 127 is a break, a quantity of 0 ends the for loop
Signal_QtyBreak ==
    /\ pc = "signal"
    /\ LET last_price == Last(Item.close)
           signal == calc_signal(Item.close, LOOKBACK)
           qty == round_qty(last_price, RiskBudget)
       IN IF signal /\ qty > 0
          THEN /\ order' \in place_bracket_market(Item.sym, qty, last_price)
               /\ cycle_orders' =
                     [cycle_orders EXCEPT ![Item.sym] = @ + 1]
               /\ activity' = activity \cup {"order"}
               /\ pc' = "submit"
               /\ UNCHANGED <<idx, consec_faults>>
          ELSE /\ IF signal
                  THEN idx' = idx /\ pc' = "cycle_sleep" /\ consec_faults' = 0
                  ELSE NextItem
               /\ UNCHANGED <<order, cycle_orders, activity>>
    /\ UNCHANGED <<tradable_map, positions, pending, tradable_syms, bars_map,
                   gate_seen, cycle_queries, cycle_fault, slept, tick,
                   interrupted_at, call>>

\* lines 122-128 and 73-89: signal, sizing, and the call of submit_order
Signal ==
    /\ pc = "signal"
    /\ LET last_price == Last(Item.close)
           signal == calc_signal(Item.close, LOOKBACK)
           qty == round_qty(last_price, RiskBudget)
       IN IF signal /\ qty > 0
          THEN /\ order' \in place_bracket_market(Item.sym, qty, last_price)
               /\ cycle_orders' =
                     [cycle_orders EXCEPT ![Item.sym] = @ + 1]
               /\ activity' = activity \cup {"order"}
               /\ pc' = "submit"
               /\ UNCHANGED <<idx, consec_faults>>
          ELSE /\ NextItem
               /\ UNCHANGED <<order, cycle_orders, activity>>
    /\ UNCHANGED <<tradable_map, positions, pending, tradable_syms, bars_map,
                   gate_seen, cycle_queries, cycle_fault, slept, tick,
                   interrupted_at, call>>

\* lines 117-128: a step between the gate and the submission raises
SignalFault ==
    /\ pc = "signal"
    /\ RaiseTo139("signal")
    /\ UNCHANGED <<tradable_map, positions, pending, tradable_syms, bars_map,
                   idx, order, gate_seen, cycle_orders, cycle_queries, slept,
                   tick, interrupted_at, activity, call>>

\* lines 89-90 and 129-130: submit_order returns, the Broker has the order
SubmitReturn ==
    /\ pc = "submit"
    /\ pending' = pending \cup {order.symbol}
    /\ order' = NoOrder
    /\ NextItem
    /\ UNCHANGED <<tradable_map, positions, tradable_syms, bars_map,
                   gate_seen, cycle_orders, cycle_queries, cycle_fault, slept,
                   tick, interrupted_at, activity, call>>

\* line 89: submit_order raises; a rejection leaves nothing at the Broker,
\* a lost response may leave the order accepted
SubmitFault ==
    /\ pc = "submit"
    /\ pending' \in {pending, pending \cup {order.symbol}}
    /\ order' = NoOrder
    /\ RaiseTo139("submit")
    /\ UNCHANGED <<tradable_map, positions, tradable_syms, bars_map, idx,
                   gate_seen, cycle_orders, cycle_queries, slept, tick,
                   interrupted_at, activity, call>>

\* mutant: line 134 is missing
CycleSleep_NoSleep ==
    /\ pc = "cycle_sleep"
    /\ pc' = "fetch"
    /\ UNCHANGED <<tradable_map, positions, pending, tradable_syms, bars_map,
                   idx, order, gate_seen, cycle_orders, cycle_queries,
                   cycle_fault, slept, tick, consec_faults, interrupted_at,
                   activity, call>>

\* line 134: the sleep that ends a cycle ends
CycleSleep ==
    /\ pc = "cycle_sleep"
    /\ slept' = slept + POLL_SEC
    /\ pc' = "fetch"
    /\ UNCHANGED <<tradable_map, positions, pending, tradable_syms, bars_map,
                   idx, order, gate_seen, cycle_orders, cycle_queries,
                   cycle_fault, tick, consec_faults, interrupted_at, activity,
                   call>>

\* mutant: the handler of line 139 does not sleep
FaultSleep_NoSleep ==
    /\ pc = "fault_sleep"
    /\ pc' = "fetch"
    /\ UNCHANGED <<tradable_map, positions, pending, tradable_syms, bars_map,
                   idx, order, gate_seen, cycle_orders, cycle_queries,
                   cycle_fault, slept, tick, consec_faults, interrupted_at,
                   activity, call>>

\* lines 139-141: the sleep of the Exception handler ends
FaultSleep ==
    /\ pc = "fault_sleep"
    /\ slept' = slept + POLL_SEC
    /\ pc' = "fetch"
    /\ UNCHANGED <<tradable_map, positions, pending, tradable_syms, bars_map,
                   idx, order, gate_seen, cycle_orders, cycle_queries,
                   cycle_fault, tick, consec_faults, interrupted_at, activity,
                   call>>

(* ------------------------- operator interrupt ------------------------- *)
\* positions of main() inside the try body of lines 109-134
TryBody == {"fetch", "nobars_sleep", "gate", "signal", "submit",
            "cycle_sleep"}

\* mutant: line 139 is a bare except, which also catches
\* KeyboardInterrupt: the loop sleeps and goes on
Interrupt_Swallowed ==
    /\ pc \in TryBody \cup {"fault_sleep", "startup"}
    /\ interrupted_at' = pc
    /\ pc' = IF pc \in TryBody THEN "fault_sleep" ELSE "killed"
    /\ IF pc = "submit"
       THEN /\ pending' \in {pending, pending \cup {order.symbol}}
            /\ order' = NoOrder
       ELSE UNCHANGED <<pending, order>>
    /\ UNCHANGED <<tradable_map, positions, tradable_syms, bars_map, idx,
                   gate_seen, cycle_orders, cycle_queries, cycle_fault, slept,
                   tick, consec_faults, activity, call>>

\* KeyboardInterrupt is raised wherever main() is.  Inside the try body
\* line 136 catches it and the loop breaks; in the handler's sleep of line
\* 141 and at startup nothing catches it.  An interrupted submit_order may
\* or may not have reached the Broker.
Interrupt ==
    /\ pc \in TryBody \cup {"fault_sleep", "startup"}
    /\ interrupted_at' = pc
    /\ pc' = IF pc \in TryBody THEN "stopped" ELSE "killed"
    /\ IF pc = "submit"
       THEN /\ pending' \in {pending, pending \cup {order.symbol}}
            /\ order' = NoOrder
       ELSE UNCHANGED <<pending, order>>
    /\ UNCHANGED <<tradable_map, positions, tradable_syms, bars_map, idx,
                   gate_seen, cycle_orders, cycle_queries, cycle_fault, slept,
                   tick, consec_faults, activity, call>>

(* ------------------------------- Broker ------------------------------- *)
Running == pc \notin {"exited", "crashed", "stopped", "killed", "pure"}

\* an accepted order fills: the position appears in get_all_positions
BrokerFill ==
    /\ Running
    /\ \E s \in pending :
          /\ pending' = pending \ {s}
          /\ positions' = positions \cup {s}
    /\ UNCHANGED <<pc, tradable_map, tradable_syms, bars_map, idx, order,
                   gate_seen, cycle_orders, cycle_queries, cycle_fault, slept,
                   tick, consec_faults, interrupted_at, activity, call>>

\* an exit leg fills (or the position is closed otherwise)
BrokerClose ==
    /\ Running
    /\ \E s \in positions : positions' = positions \ {s}
    /\ UNCHANGED <<pc, tradable_map, pending, tradable_syms, bars_map, idx,
                   order, gate_seen, cycle_orders, cycle_queries, cycle_fault,
                   slept, tick, consec_faults, interrupted_at, activity, call>>

(* --------------------------- specifications --------------------------- *)
\* the steps main() takes by itself: calls return or raise, sleeps end
Progress ==
    \/ Startup
    \/ StartupFault
    \/ Fetch
    \/ FetchFault
    \/ NoBarsSleep
    \/ Gate
    \/ GateFault
    \/ Signal
    \/ SignalFault
    \/ SubmitReturn
    \/ SubmitFault
    \/ CycleSleep
    \/ FaultSleep

Next ==
    \/ Progress
    \/ Interrupt
    \/ BrokerFill
    \/ BrokerClose

Spec == Init /\ [][Next]_vars

\* main() is one thread: time.sleep(POLL_SEC) of line 141 ends, and the
\* call of get_latest_bars at line 110 returns or raises
LiveSpec ==
    /\ Spec
    /\ WF_vars(FaultSleep)
    /\ WF_vars(Fetch \/ FetchFault)

(* ---------------- the pure functions on bounded inputs ---------------- *)
CloseSeqs ==
    UNION {[1..n -> 1..MaxClose] : n \in 0..(MaxLookback + 2)}
    \cup {<<10, 11, 9, 12>>, <<10, 11, 9, 11>>}
    \cup LoopHistories

Lookbacks == (1..MaxLookback) \cup {LOOKBACK}

SizePrices == ((-1)..MaxPrice) \cup {5000}

SizeDollars ==
    {<<n, d>> : n \in (-1)..MaxDollars, d \in 1..MaxDollars}
    \cup {RiskBudget}

\* reference prices in cents: the smallest ones, exact half-cent ties of
\* the take-profit (125) and of the stop-loss (500), and prices of the loop
BracketPrices == (1..MaxPrice) \cup {125, 500, 4999, 5000, 5001}

InitPure ==
    /\ pc = "pure"
    /\ tradable_map = [s \in SymbolSet |-> TRUE]
    /\ positions = {}
    /\ pending = {}
    /\ tradable_syms = <<>>
    /\ bars_map = None
    /\ idx = 0
    /\ order = NoOrder
    /\ gate_seen = FreshGate
    /\ cycle_orders = FreshOrders
    /\ cycle_queries = FreshOrders
    /\ cycle_fault = "none"
    /\ slept = 0
    /\ tick = 0
    /\ consec_faults = 0
    /\ interrupted_at = "none"
    /\ activity = {}
    /\ \/ \E close \in CloseSeqs, lookback \in Lookbacks :
             call = [NoCall EXCEPT !.fn = "calc_signal",
                                   !.close = close,
                                   !.lookback = lookback]
       \/ \E price \in SizePrices, dollars \in SizeDollars :
             call = [NoCall EXCEPT !.fn = "round_qty",
                                   !.price = price,
                                   !.dollars = dollars]
       \/ \E price \in BracketPrices :
             call = [NoCall EXCEPT !.fn = "place_bracket_market",
                                   !.price = price,
                                   !.qty = 1]

EvalSignal ==
    /\ pc = "pure"
    /\ call.fn = "calc_signal"
    /\ ~call.returned
    /\ call' = [call EXCEPT !.returned = TRUE,
                            !.signal = calc_signal(call.close, call.lookback)]
    /\ UNCHANGED loopvars

EvalSize ==
    /\ pc = "pure"
    /\ call.fn = "round_qty"
    /\ ~call.returned
    /\ call' = [call EXCEPT !.returned = TRUE,
                            !.qty = round_qty(call.price, call.dollars)]
    /\ UNCHANGED loopvars

EvalBracket ==
    /\ pc = "pure"
    /\ call.fn = "place_bracket_market"
    /\ ~call.returned
    /\ call' = [call EXCEPT !.returned = TRUE,
                            !.requests = place_bracket_market(
                                             "AAPL", call.qty, call.price)]
    /\ UNCHANGED loopvars

NextPure ==
    \/ EvalSignal
    \/ EvalSize
    \/ EvalBracket

SpecPure == InitPure /\ [][NextPure]_vars

(* ------------------------------- claims ------------------------------- *)
Items == bars_map.items

\* item i of the batch would be ordered if its gate is clear
Qualifies(i) ==
    /\ calc_signal(Items[i].close, LOOKBACK)
    /\ round_qty(Last(Items[i].close), RiskBudget) > 0

\* C1: in every cycle, an instrument whose gate-time position query found
\* a position in it gets no submit_order call in that cycle, whatever its
\* signal
C1_OpenPositionBlocksOrder ==
    \A s \in SymbolSet : gate_seen[s] = "open" => cycle_orders[s] = 0

\* a cycle has ended in which an instrument with a breakout and a positive
\* quantity was gated out
C1_Witness ==
    /\ pc = "cycle_sleep"
    /\ \E i \in 1..Len(Items) :
          /\ gate_seen[Items[i].sym] = "open"
          /\ Qualifies(i)
          /\ cycle_orders[Items[i].sym] = 0

\* C2: when a per-instrument step (gate, signal/sizing, submit) has raised
\* and the loop is about to sleep, every instrument after the failing one
\* in the batch has been gated and, if it qualified, ordered
C2_FaultKeepsRemainingInstruments ==
    (pc \in {"fault_sleep", "cycle_sleep"}
        /\ cycle_fault \in {"gate", "signal", "submit"})
    => \A i \in (idx + 1)..Len(Items) :
          /\ gate_seen[Items[i].sym] # "unqueried"
          /\ (gate_seen[Items[i].sym] = "clear" /\ Qualifies(i))
                => cycle_orders[Items[i].sym] >= 1

\* C3: the loop is never stopped by an interrupt delivered while
\* submit_order was in progress
C3_NoStopDuringSubmit ==
    pc = "stopped" => interrupted_at # "submit"

\* C4: after a fault the loop sleeps POLL_SEC and is then at the fetch of
\* the next cycle, and that fetch is made, unless an interrupt ends the
\* process first
C4_FaultThenNextFetch ==
    /\ (pc = "fault_sleep")
          ~> ((pc = "fetch" /\ slept = POLL_SEC) \/ pc = "killed")
    /\ (pc = "fetch" /\ slept = POLL_SEC)
          ~> ((pc # "fetch" /\ slept = 0) \/ pc = "stopped")

\* the fetch after MaxFaults consecutive faulty cycles has been made
C4_Witness ==
    /\ pc = "gate"
    /\ consec_faults = MaxFaults
    /\ cycle_fault = "none"
    /\ slept = 0

\* the loop has been entered: ensure_tradable returned a non-empty list
LoopEntered == tradable_syms # <<>>

\* C5: once the loop has been entered, main() has ended only if a
\* KeyboardInterrupt was delivered inside the loop; no fault ends it
C5_OnlyInterruptEndsLoop ==
    (LoopEntered /\ pc \in {"exited", "crashed", "stopped", "killed"})
    => /\ pc \in {"stopped", "killed"}
       /\ interrupted_at \in TryBody \cup {"fault_sleep"}

\* the loop went through MaxFaults consecutive faulty cycles and was then
\* stopped by an interrupt
C5_Witness ==
    /\ pc = "stopped"
    /\ consec_faults = MaxFaults
    /\ interrupted_at = "fetch"

\* C6: in every cycle, faulty ones included, submit_order is called at
\* most once per instrument
C6_AtMostOneOrderPerCycle ==
    \A s \in SymbolSet : cycle_orders[s] <= 1

\* a cycle that ordered one instrument ended in a fault at another
C6_Witness ==
    /\ pc = "fault_sleep"
    /\ idx = 2
    /\ cycle_orders[Items[1].sym] = 1

\* C7: if ensure_tradable returns the empty list, main() returns at line
\* 105 and no fetch, position query or order submission is ever made
C7_EmptyUniverseExits ==
    (ensure_tradable(SYMBOLS, tradable_map) = <<>>
        /\ pc \notin {"startup", "crashed", "killed"})
    => (pc = "exited" /\ activity = {} /\ tick = 0)

\* main() has returned at line 105 on an empty tradable list
C7_Witness ==
    /\ pc = "exited"
    /\ tradable_syms = <<>>
    /\ activity = {}

\* C8: a fetch that returns (does not raise) and has no data leads
\* directly to the no-bars sleep,
\* with no position query, no order and no fault recorded in that cycle,
\* and from that sleep the loop goes to the next fetch after POLL_SEC (or
\* is stopped by an interrupt)
C8_NoDataCycle ==
    [][ /\ (tick' # tick /\ cycle_fault' # "fetch" /\ ~Truthy(bars_map'))
            => (pc' = "nobars_sleep" /\ cycle_fault' = "none")
        /\ pc = "nobars_sleep"
            => /\ gate_seen = FreshGate
               /\ cycle_orders = FreshOrders
               /\ cycle_fault = "none"
               /\ consec_faults = 0
               /\ slept = 0
               /\ \/ pc' = "nobars_sleep" /\ tick' = tick
                  \/ pc' = "fetch" /\ tick' = tick /\ slept' = POLL_SEC
                  \/ pc' = "stopped"
      ]_vars

\* the loop is at the fetch of the cycle after a no-data cycle
C8_Witness ==
    /\ pc = "fetch"
    /\ ~Truthy(bars_map)
    /\ tick = 1
    /\ cycle_fault = "none"
    /\ slept = POLL_SEC

\* C9: calc_signal is true exactly when there are at least lookback+1
\* closes and the latest is strictly above each of the lookback closes
\* before it; closes [10,11,9,12] give true and [10,11,9,11] false at
\* lookback 3
C9_SignalIffStrictBreakout ==
    (call.fn = "calc_signal" /\ call.returned)
    => LET n == Len(call.close)
           N == call.lookback
       IN /\ call.signal <=>
                (/\ n >= N + 1
                 /\ \A i \in (n - N)..(n - 1) : call.close[n] > call.close[i])
          /\ (call.close = <<10, 11, 9, 12>> /\ N = 3) => call.signal
          /\ (call.close = <<10, 11, 9, 11>> /\ N = 3) => ~call.signal

\* closes [10,11,9,11] at lookback 3, a tie with the prior maximum, have
\* evaluated to false
C9_Witness ==
    /\ call.fn = "calc_signal"
    /\ call.returned
    /\ call.close = <<10, 11, 9, 11>>
    /\ call.lookback = 3
    /\ ~call.signal

\* C10: round_qty never returns a negative quantity, returns 0 for
\* price <= 0, and for price > 0 and dollars >= 0 returns the whole
\* number q with q * price <= dollars < (q + 1) * price; price 50.00 with
\* the loop's budget DOLLAR_RISK / SL_PCT gives 666
C10_SizeIsFloor ==
    (call.fn = "round_qty" /\ call.returned)
    => LET p == call.price
           n == call.dollars[1]
           d == call.dollars[2]
           q == call.qty
       IN /\ q \in Nat
          /\ p <= 0 => q = 0
          /\ (p > 0 /\ n >= 0)
                => /\ q * d * p <= 100 * n
                   /\ 100 * n < (q + 1) * d * p
          /\ (p = 5000 /\ call.dollars = RiskBudget) => q = 666

\* price 50.00 with the budget DOLLAR_RISK / SL_PCT has been sized to 666
C10_Witness ==
    /\ call.fn = "round_qty"
    /\ call.returned
    /\ call.price = 5000
    /\ call.dollars = RiskBudget
    /\ call.qty = 666

\* the step taken is the return of the position query of line 118
GateReturns ==
    /\ pc = "gate"
    /\ cycle_queries' # cycle_queries
    /\ pc' # "fault_sleep"

\* the step taken is the run of lines 122-132 for the current item
SignalRuns ==
    /\ pc = "signal"
    /\ pc' \in {"submit", "gate", "cycle_sleep"}

\* C11: the gate looks at the Broker's position list only: while an order
\* of an earlier cycle for an instrument is accepted and not yet in the
\* position list, the gate lets the instrument through, and a true signal
\* with a positive quantity then submits another order for it
C11_StalePositionsAllowSecondOrder ==
    [][ /\ (GateReturns /\ Item.sym \in pending /\ Item.sym \notin positions)
            => (pc' = "signal" /\ gate_seen'[Item.sym] = "clear")
        /\ (SignalRuns /\ Item.sym \in pending /\ Qualifies(idx))
            => (pc' = "submit" /\ order'.symbol = Item.sym)
      ]_vars

\* a second order for an instrument is being submitted while the order of
\* an earlier cycle for it is still unfilled at the Broker
C11_Witness ==
    /\ pc = "submit"
    /\ order.symbol \in pending
    /\ cycle_orders[order.symbol] = 1
    /\ order.symbol \notin positions

\* C12: when a cycle has ended in one of its sleeps, every instrument of
\* its batch has been queried exactly once in it, and no instrument was
\* ordered in it without having been queried in it
C12_OneQueryPerInstrumentPerCycle ==
    (pc \in {"cycle_sleep", "fault_sleep"} /\ cycle_fault # "fetch")
    => /\ \A i \in 1..Len(Items) : cycle_queries[Items[i].sym] = 1
       /\ \A s \in SymbolSet : cycle_orders[s] > 0 => cycle_queries[s] > 0

\* C13: every order handed to submit_order has a whole quantity >= 1, and
\* a true signal sized to 0 submits nothing and moves on to the next item
C13_OrdersHavePositiveQuantity ==
    [][ /\ pc' = "submit" => (order'.qty \in Nat /\ order'.qty >= 1)
        /\ (SignalRuns /\ calc_signal(Item.close, LOOKBACK)
                /\ round_qty(Last(Item.close), RiskBudget) = 0)
            => /\ cycle_orders' = cycle_orders
               /\ order' = NoOrder
               /\ IF idx < Len(Items)
                  THEN pc' = "gate" /\ idx' = idx + 1
                  ELSE pc' = "cycle_sleep"
      ]_vars

\* a breakout priced above the risk budget was passed over and the loop is
\* at the next instrument
C13_Witness ==
    /\ pc = "gate"
    /\ idx = 2
    /\ gate_seen[Items[1].sym] = "clear"
    /\ calc_signal(Items[1].close, LOOKBACK)
    /\ round_qty(Last(Items[1].close), RiskBudget) = 0
    /\ cycle_orders[Items[1].sym] = 0

\* C14: a fetch call is made only from line 110, with no submission in
\* progress, and every fetch call but the first comes after exactly one
\* sleep of POLL_SEC since the fetch call before it
C14_OneSleepBetweenFetches ==
    [][ tick' # tick
          => /\ pc = "fetch"
             /\ order = NoOrder
             /\ IF "fetch" \in activity THEN slept = POLL_SEC ELSE slept = 0
      ]_vars

\* a third fetch call has been made, after a faulty cycle
C14_Witness ==
    /\ tick = 1
    /\ slept = 0
    /\ consec_faults = 1
    /\ pc = "gate"

\* x is num/den rounded to a whole number: no whole number is nearer
IsRounded(x, num, den) ==
    /\ 2 * (x * den - num) <= den
    /\ 2 * (num - x * den) <= den

\* C15: the order being submitted is a buy bracket for the current
\* instrument, its reference price is the latest close of that
\* instrument's bars of this cycle, and its take-profit and stop-loss are
\* price * (1 + TP_PCT) and price * (1 - SL_PCT) rounded to whole cents
C15_BracketPrices ==
    pc = "submit"
    => /\ order.symbol = Item.sym
       /\ order.side = "buy"
       /\ order.order_class = "bracket"
       /\ order.price = Last(Item.close)
       /\ IsRounded(order.take_profit,
                    order.price * (TP_PCT[2] + TP_PCT[1]), TP_PCT[2])
       /\ IsRounded(order.stop_loss,
                    order.price * (SL_PCT[2] - SL_PCT[1]), SL_PCT[2])

\* an order at 50.01 is being submitted with take-profit 50.21 and
\* stop-loss 49.86
C15_Witness ==
    /\ pc = "submit"
    /\ order.price = 5001
    /\ order.take_profit = 5021
    /\ order.stop_loss = 4986

\* C16: in every cycle, an instrument that was queried or ordered is in
\* the tradable list computed at startup, is reported tradable by the
\* Broker, and has bars in the batch of this cycle
C16_OnlyTradableWithBars ==
    \A s \in SymbolSet :
       (cycle_queries[s] > 0 \/ cycle_orders[s] > 0)
       => /\ s \in Range(tradable_syms)
          /\ tradable_map[s]
          /\ \E i \in 1..Len(Items) : Items[i].sym = s

\* a cycle ran to its end with an instrument that is not tradable, or
\* that had no bars in the batch, left without query and without order
C16_Witness ==
    /\ pc = "cycle_sleep"
    /\ Len(tradable_syms) = 2
    /\ Len(Items) = 1
    /\ \E s \in SymbolSet :
          /\ s # Items[1].sym
          /\ cycle_queries[s] = 0
          /\ cycle_queries[Items[1].sym] = 1

\* C17: once a KeyboardInterrupt has been delivered to the loop, main()
\* takes no further step: no fetch, no position query, no submission
C17_NothingAfterInterrupt ==
    [][ (interrupted_at \in TryBody \cup {"fault_sleep"})
          => UNCHANGED <<pc, tick, activity, cycle_queries, cycle_orders,
                         order, idx>>
      ]_vars

\* the loop was stopped between the gate and the signal of the first of
\* two instruments: the second one is left unprocessed
C17_Witness ==
    /\ pc = "stopped"
    /\ interrupted_at = "signal"
    /\ idx = 1
    /\ Len(Items) = 2
    /\ cycle_queries[Items[2].sym] = 0

\* C18: for a reference price of a positive whole number of cents, every
\* request place_bracket_market may build has
\* stop_loss <= price <= take_profit
C18_ExitLegsOnTheRightSide ==
    (call.fn = "place_bracket_market" /\ call.returned)
    => /\ call.requests # {}
       /\ \A r \in call.requests :
             /\ r.price = call.price
             /\ r.stop_loss <= r.price
             /\ r.price <= r.take_profit

\* at 0.01 both legs round to the reference price itself
C18_Witness ==
    /\ call.fn = "place_bracket_market"
    /\ call.returned
    /\ call.price = 1
    /\ \E r \in call.requests : r.stop_loss = 1 /\ r.take_profit = 1

=============================================================================
